---- MODULE Spec2Model ----
(***************************************************************************)
(* Weather Informer (bhavant/portfolioWeather): the forecast aggregator    *)
(* of src/src/services/weatherService.ts, the input classifier of          *)
(* src/src/utils/validation.ts, the proxy of src/api/weather.ts, the       *)
(* search form of src/src/components/SearchBar.tsx and the weather context *)
(* of src/src/context/WeatherContext.tsx.                                  *)
(*                                                                         *)
(* Conventions of the model                                                *)
(*   - a JavaScript string that the code compares, sorts, pads or searches *)
(*     is a sequence of UTF-16 code units (integers); strings the code     *)
(*     only copies (condition, description, icon) are TLA+ strings;        *)
(*   - a Unix timestamp (item.dt) is an integer number of seconds, the     *)
(*     local time zone a fixed offset in seconds east of UTC;              *)
(*   - a fractional number is a fixed-point integer: temperatures and wind *)
(*     speeds in tenths, the precipitation probability in thousandths;     *)
(*   - a call that can throw returns [threw, value].                       *)
(***************************************************************************)
EXTENDS Integers, Sequences, FiniteSets, TLC

VARIABLES
    items,      \* the sample list handed to transformForecastData
    now,        \* the clock reading of `new Date()` at the call (seconds)
    tz,         \* the caller's local offset from UTC (seconds)
    pc,         \* "ready" before the call, "done" after it
    forecasts,  \* the DayForecast[] returned (<<>> before the call)
    threw,      \* TRUE iff the call ended in an exception
    input,      \* the text handed to validateSearchInput
    validation, \* the ValidationResult it returned (Undefined before the call)
    apiQuery,   \* the call of formatApiQuery made and what it returned
    proxied,    \* what the proxy's handler did with the request for apiQuery
    bar,        \* SearchBar: its input, touched, loading, and the onSearch calls
    mounted,    \* TRUE once WeatherProvider has rendered and run its effect
    state,      \* the WeatherState of WeatherProvider
    stored,     \* localStorage's item STORAGE_KEY: Null or Some(text)
    calls,      \* the fetchWeather calls that reached fetch, in start order
    fetched,    \* the queries handed to fetchForecast, in call order
    lastStep    \* the last step taken and what the storage did in it

\* the variables of the aggregator, of the input classifier and of the
\* weather context
aggVars == <<items, now, tz, pc, forecasts, threw>>
valVars == <<input, validation, apiQuery, proxied, bar>>
ctxVars == <<mounted, state, stored, calls, fetched, lastStep>>

vars == <<aggVars, valVars, ctxVars>>

\* `const v = e` followed by body: e is evaluated once and its value named
With(e, Body(_)) == CHOOSE r \in {Body(v) : v \in {e}} : TRUE

----------------------------------------------------------------------------
(* Strings as sequences of code units *)

Hyphen == 45
Colon == 58
Space == 32
Zero == 48
LetterT == 84

\* String(n) for a non-negative integer n
RECURSIVE DecimalString(_)
DecimalString(n) ==
    IF n < 10 THEN <<Zero + n>>
    ELSE DecimalString(n \div 10) \o <<Zero + (n % 10)>>

\* s.padStart(2, '0')
padStart2(s) == IF Len(s) >= 2 THEN s ELSE <<Zero>> \o s

\* a < b for two strings: the comparison of `>` and of Array.prototype.sort(),
\* by code units from index i on
RECURSIVE StrLessFrom(_, _, _)
StrLessFrom(a, b, i) ==
    IF i > Len(b) THEN FALSE
    ELSE IF i > Len(a) THEN TRUE
    ELSE IF a[i] # b[i] THEN a[i] < b[i]
    ELSE StrLessFrom(a, b, i + 1)

StrLess(a, b) == StrLessFrom(a, b, 1)

\* s.includes(sub)
includes(s, sub) ==
    \E i \in 1..(Len(s) - Len(sub) + 1) : SubSeq(s, i, i + Len(sub) - 1) = sub

\* the numbers written by the two and by the four decimal digits of s from i
Number2(s, i) == 10 * (s[i] - Zero) + (s[i + 1] - Zero)
Number4(s, i) == 100 * Number2(s, i) + Number2(s, i + 2)

----------------------------------------------------------------------------
(* Date: the local calendar fields of an instant *)

SecondsPerDay == 86400
SecondsPerHour == 3600

\* the proleptic Gregorian date of day number z (days since 1970-01-01)
CivilFromDays(z) ==
    LET zz == z + 719468
        era == zz \div 146097
    IN  With(zz - era * 146097, LAMBDA doe :
        With((doe - doe \div 1460 + doe \div 36524 - doe \div 146096) \div 365, LAMBDA yoe :
        With(doe - (365 * yoe + yoe \div 4 - yoe \div 100), LAMBDA doy :
        With((5 * doy + 2) \div 153, LAMBDA mp :
            LET d == doy - (153 * mp + 2) \div 5 + 1
                m == IF mp < 10 THEN mp + 3 ELSE mp - 9
                y == yoe + era * 400 + (IF m <= 2 THEN 1 ELSE 0)
            IN  [year |-> y, month |-> m, day |-> d]))))

\* the day number of a Gregorian date
DaysFromCivil(y, m, d) ==
    LET yy == IF m <= 2 THEN y - 1 ELSE y
        era == yy \div 400
        yoe == yy - era * 400
        doy == (153 * (IF m > 2 THEN m - 3 ELSE m + 9) + 2) \div 5 + d - 1
        doe == yoe * 365 + yoe \div 4 - yoe \div 100 + doy
    IN  era * 146097 + doe - 719468

\* new Date(t * 1000) read through getFullYear(), getMonth(), getDate(),
\* getHours(), getMinutes() in the zone at offset zone
LocalDate(t, zone) ==
    LET loc == t + zone
        z == loc \div SecondsPerDay
        c == CivilFromDays(z)
        sod == loc - z * SecondsPerDay
    IN  [getFullYear |-> c.year, getMonth |-> c.month - 1, getDate |-> c.day,
         getHours |-> sod \div SecondsPerHour,
         getMinutes |-> (sod % SecondsPerHour) \div 60]

\* date.getDay(): 0 is Sunday; 1970-01-01 was a Thursday
getDay(date) ==
    (DaysFromCivil(date.getFullYear, date.getMonth + 1, date.getDate) + 4) % 7

\* `${d.getFullYear()}-${String(d.getMonth() + 1).padStart(2, '0')}-${String(d.getDate()).padStart(2, '0')}`
dateKey(d) ==
    DecimalString(d.getFullYear) \o <<Hyphen>>
        \o padStart2(DecimalString(d.getMonth + 1)) \o <<Hyphen>>
        \o padStart2(DecimalString(d.getDate))

\* new Date(text) for text "YYYY-MM-DDTHH:MM:SS" (no zone: local time)
ParseLocal(text) ==
    [getFullYear |-> Number4(text, 1),
     getMonth |-> Number2(text, 6) - 1,
     getDate |-> Number2(text, 9),
     getHours |-> Number2(text, 12),
     getMinutes |-> Number2(text, 15)]

----------------------------------------------------------------------------
(* Numbers *)

\* Math.round(num / den) for den > 0: the nearest integer, halves upwards
MathRound(num, den) == (2 * num + den) \div (2 * den)

\* the scale of the fixed-point temperatures and wind speeds (tenths)
Tenths == 10
\* the scale of the fixed-point precipitation probability (thousandths)
Thousandths == 1000

RECURSIVE Sum(_)
Sum(s) == IF s = <<>> THEN 0 ELSE s[1] + Sum(Tail(s))

\* Math.max(...s) and Math.min(...s) of a non-empty array
MathMax(s) == CHOOSE x \in {s[i] : i \in DOMAIN s} : \A j \in DOMAIN s : s[j] <= x
MathMin(s) == CHOOSE x \in {s[i] : i \in DOMAIN s} : \A j \in DOMAIN s : x <= s[j]

----------------------------------------------------------------------------
(* Formatting helpers *)

Weekdays ==
    <<"Sunday", "Monday", "Tuesday", "Wednesday", "Thursday", "Friday", "Saturday">>

\* getDayName(dateStr), its `new Date()` reading t
getDayName(dateStr, t, zone) ==
    LET date == ParseLocal(dateStr \o <<LetterT, 49, 50, Colon, Zero, Zero, Colon, Zero, Zero>>)
        today == LocalDate(t, zone)
    IN  IF /\ date.getFullYear = today.getFullYear
           /\ date.getMonth = today.getMonth
           /\ date.getDate = today.getDate
        THEN "Today"
        ELSE Weekdays[getDay(date) + 1]

\* dtTxt.replace(' ', 'T'): the first space only
replaceSpaceT(s) ==
    IF \E i \in DOMAIN s : s[i] = Space
    THEN LET i == CHOOSE k \in DOMAIN s : s[k] = Space /\ \A j \in 1..(k - 1) : s[j] # Space
         IN  [s EXCEPT ![i] = LetterT]
    ELSE s

\* formatTime(dtTxt): en-US, hour numeric, minute 2-digit, hour12
formatTime(dtTxt) ==
    LET date == ParseLocal(replaceSpaceT(dtTxt))
        h == date.getHours
        h12 == IF h % 12 = 0 THEN 12 ELSE h % 12
    IN  DecimalString(h12) \o <<Colon>> \o padStart2(DecimalString(date.getMinutes))
            \o <<Space>> \o (IF h < 12 THEN <<65, 77>> ELSE <<80, 77>>)

----------------------------------------------------------------------------
(* transformHourlyItem and transformForecastData *)

\* the value of items[0] of an empty array, of map.get of a missing key
Undefined == [undefined |-> TRUE]
IsUndefined(x) == DOMAIN x = {"undefined"}

\* reading item.main, item.wind or item.weather[0].main throws a TypeError
ItemThrows(item) == IsUndefined(item) \/ item.weather = <<>>

\* a bug: the probability scaled by 1000
transformHourlyItemPerMille(item) ==
    [time |-> formatTime(item.dt_txt),
     temp |-> MathRound(item.main.temp, Tenths),
     feelsLike |-> MathRound(item.main.feels_like, Tenths),
     humidity |-> item.main.humidity,
     windSpeed |-> MathRound(item.wind.speed, Tenths),
     condition |-> item.weather[1].main,
     description |-> item.weather[1].description,
     icon |-> item.weather[1].icon,
     pop |-> MathRound(item.pop * 1000, Thousandths)]

transformHourlyItem(item) ==
    [time |-> formatTime(item.dt_txt),
     temp |-> MathRound(item.main.temp, Tenths),
     feelsLike |-> MathRound(item.main.feels_like, Tenths),
     humidity |-> item.main.humidity,
     windSpeed |-> MathRound(item.wind.speed, Tenths),
     condition |-> item.weather[1].main,
     description |-> item.weather[1].description,
     icon |-> item.weather[1].icon,
     pop |-> MathRound(item.pop * 100, Thousandths)]

\* Map<string, OWMForecastItem[]>: the entries in insertion order
MapHas(m, k) == \E i \in DOMAIN m : m[i].key = k
MapGet(m, k) == m[CHOOSE i \in DOMAIN m : m[i].key = k].value
MapSet(m, k, v) ==
    IF MapHas(m, k)
    THEN [i \in DOMAIN m |-> IF m[i].key = k THEN [key |-> k, value |-> v] ELSE m[i]]
    ELSE Append(m, [key |-> k, value |-> v])
MapKeys(m) == [i \in DOMAIN m |-> m[i].key]

\* a bug: the date key of one item taken from its UTC date
itemDateKeyUtc(item, zone) == dateKey(LocalDate(item.dt, 0))

\* the date key of one item: its dt in the caller's zone
itemDateKey(item, zone) == dateKey(LocalDate(item.dt, zone))

\* a bug: existing.unshift(item)
unshift(existing, item) == <<item>> \o existing

\* existing.push(item)
push(existing, item) == Append(existing, item)

\* the grouping loop over items[i..]
RECURSIVE groupByDate(_, _, _, _)
groupByDate(list, i, groupedByDate, zone) ==
    IF i > Len(list) THEN groupedByDate
    ELSE With(itemDateKey(list[i], zone), LAMBDA key :
         With(IF MapHas(groupedByDate, key)
              THEN MapGet(groupedByDate, key) ELSE <<>>, LAMBDA existing :
         With(MapSet(groupedByDate, key, push(existing, list[i])), LAMBDA next :
              groupByDate(list, i + 1, next, zone))))

\* Array.prototype.sort() of strings: ascending by code units
RECURSIVE InsertSorted(_, _)
InsertSorted(k, s) ==
    IF s = <<>> THEN <<k>>
    ELSE IF StrLess(s[1], k)
         THEN With(Tail(s), LAMBDA rest : <<s[1]>> \o InsertSorted(k, rest))
    ELSE <<k>> \o s

\* a bug: the keys left in insertion order
sortNone(s) == s

RECURSIVE sort(_)
sort(s) ==
    IF s = <<>> THEN <<>>
    ELSE With(sort(Tail(s)), LAMBDA rest : InsertSorted(s[1], rest))

\* a bug: the placeholder taken from the last item
lastItem(list) == IF Len(list) > 0 THEN list[Len(list)] ELSE Undefined

\* items[0]
firstItem(list) == IF Len(list) > 0 THEN list[1] ELSE Undefined

\* bugs: the placeholder never synthesized; synthesized for an empty key list
needsTodayNever(sortedDates, todayStr) == FALSE
needsTodayNoGuard(sortedDates, todayStr) ==
    sortedDates = <<>> \/ StrLess(todayStr, sortedDates[1])

\* the condition of the today placeholder
needsToday(sortedDates, todayStr) ==
    Len(sortedDates) > 0 /\ StrLess(todayStr, sortedDates[1])

\* the limit of the output loop
MAX_DAYS == 6

\* the twelve o'clock text searched in dt_txt
Midday == <<49, 50, Colon, Zero, Zero, Colon, Zero, Zero>>

\* a bug: the earlier of the two middle items of an even bucket
middayEarlier(dayItems) ==
    IF \E i \in DOMAIN dayItems : includes(dayItems[i].dt_txt, Midday)
    THEN dayItems[CHOOSE i \in DOMAIN dayItems :
            /\ includes(dayItems[i].dt_txt, Midday)
            /\ \A j \in 1..(i - 1) : ~includes(dayItems[j].dt_txt, Midday)]
    ELSE dayItems[((Len(dayItems) - 1) \div 2) + 1]

\* the representative item of a bucket
midday(dayItems) ==
    IF \E i \in DOMAIN dayItems : includes(dayItems[i].dt_txt, Midday)
    THEN dayItems[CHOOSE i \in DOMAIN dayItems :
            /\ includes(dayItems[i].dt_txt, Midday)
            /\ \A j \in 1..(i - 1) : ~includes(dayItems[j].dt_txt, Midday)]
    ELSE dayItems[(Len(dayItems) \div 2) + 1]

\* dayItems.map(...)
temps(dayItems) == [i \in DOMAIN dayItems |-> dayItems[i].main.temp]
humidities(dayItems) == [i \in DOMAIN dayItems |-> dayItems[i].main.humidity]
winds(dayItems) == [i \in DOMAIN dayItems |-> dayItems[i].wind.speed]
hourly(dayItems) == [i \in DOMAIN dayItems |-> transformHourlyItem(dayItems[i])]

tempHigh(ts) == MathRound(MathMax(ts), Tenths)

\* a bug: Math.ceil in place of Math.round
tempLowCeil(ts) == -((-MathMin(ts)) \div Tenths)

tempLow(ts) == MathRound(MathMin(ts), Tenths)

\* the DayForecast of one bucket, getDayName reading the clock at t
dayForecast(date, dayItems, t, zone) ==
    With(midday(dayItems), LAMBDA mid :
    With(temps(dayItems), LAMBDA ts :
        [date |-> date,
         dayName |-> getDayName(date, t, zone),
         tempHigh |-> tempHigh(ts),
         tempLow |-> tempLow(ts),
         condition |-> mid.weather[1].main,
         description |-> mid.weather[1].description,
         icon |-> mid.weather[1].icon,
         humidity |-> MathRound(Sum(humidities(dayItems)), Len(humidities(dayItems))),
         windSpeed |-> MathRound(Sum(winds(dayItems)), Tenths * Len(winds(dayItems))),
         hourly |-> hourly(dayItems)]))

\* a bug: the loop left one summary late
limitReachedLate(out) == Len(out) > MAX_DAYS

\* if (forecasts.length >= 6) break
limitReached(out) == Len(out) >= MAX_DAYS

\* the output loop over sortedDates[i..]; clock[i + 1] is the clock reading of
\* the getDayName call of the i-th date
RECURSIVE buildForecasts(_, _, _, _, _, _)
buildForecasts(sortedDates, i, groupedByDate, out, clock, zone) ==
    IF i > Len(sortedDates) \/ limitReached(out)
    THEN [threw |-> FALSE, value |-> out]
    ELSE With(MapGet(groupedByDate, sortedDates[i]), LAMBDA dayItems :
             IF \E j \in DOMAIN dayItems : ItemThrows(dayItems[j])
             THEN [threw |-> TRUE, value |-> <<>>]
             ELSE With(Append(out, dayForecast(sortedDates[i], dayItems, clock[i + 1], zone)),
                       LAMBDA next :
                       buildForecasts(sortedDates, i + 1, groupedByDate, next, clock, zone)))

\* transformForecastData(items); clock[1] is its own `new Date()` reading
transformForecastData(list, clock, zone) ==
    With(dateKey(LocalDate(clock[1], zone)), LAMBDA todayStr :
    With(groupByDate(list, 1, <<>>, zone), LAMBDA grouped :
    With(sort(MapKeys(grouped)), LAMBDA sorted :
        IF needsToday(sorted, todayStr)
        THEN With(MapSet(grouped, todayStr, <<firstItem(list)>>), LAMBDA groupedByDate :
             With(<<todayStr>> \o sorted, LAMBDA sortedDates :
                  buildForecasts(sortedDates, 1, groupedByDate, <<>>, clock, zone)))
        ELSE buildForecasts(sorted, 1, grouped, <<>>, clock, zone))))

----------------------------------------------------------------------------
(* The inputs of the aggregator *)

\* the provider's dt_txt of an instant: its UTC date and time of day
ProviderText(t) ==
    LET d == LocalDate(t, 0)
    IN  dateKey(d) \o <<Space>> \o padStart2(DecimalString(d.getHours)) \o <<Colon>>
            \o padStart2(DecimalString(d.getMinutes)) \o <<Colon, Zero, Zero>>

\* "2024-01-15 12:00:00", the dt_txt of the tests' mock item
MockText == <<50, 48, 50, 52, Hyphen, 48, 49, Hyphen, 49, 53, Space>> \o Midday

\* the measurements of a sample: 72.6 degrees clear, -2.5 degrees rain,
\* 72.4 degrees clouds
Clear ==
    [main |-> [temp |-> 726, feels_like |-> 702, humidity |-> 55],
     wind |-> [speed |-> 84], pop |-> 250,
     weather |-> <<[main |-> "Clear", description |-> "clear sky", icon |-> "01d"]>>]
Rain ==
    [main |-> [temp |-> -25, feels_like |-> -96, humidity |-> 80],
     wind |-> [speed |-> 125], pop |-> 1000,
     weather |-> <<[main |-> "Rain", description |-> "light rain", icon |-> "10d"]>>]
Clouds ==
    [main |-> [temp |-> 724, feels_like |-> 698, humidity |-> 56],
     wind |-> [speed |-> 36], pop |-> 0,
     weather |-> <<[main |-> "Clouds", description |-> "scattered clouds", icon |-> "03d"]>>]

Item(t, text, m) ==
    [dt |-> t, dt_txt |-> text, main |-> m.main, wind |-> m.wind,
     weather |-> m.weather, pop |-> m.pop]

\* local offsets: UTC-6 and UTC+9
TimeZones == {-21600, 32400}

\* clock readings: 2024-12-30 20:00:00Z, 2025-01-01 05:59:59Z (one second
\* before midnight at UTC-6, 14:59:59 at UTC+9), 2025-01-03 12:00:00Z
Clocks == {1735588800, 1735711199, 1735905600}

\* 2024-12-31 12:00Z, 2025-01-01 00:00Z and 15:00Z: at UTC-6 the first two are
\* on 31 December, at UTC+9 each is on a day of its own
Instants == {1735646400, 1735689600, 1735743600}

\* arbitrary samples: at each instant, the provider's text with clear or rain,
\* or the mock's noon text with clouds
Samples ==
    {Item(t, ProviderText(t), Clear) : t \in Instants}
        \cup {Item(t, ProviderText(t), Rain) : t \in Instants}
        \cup {Item(t, MockText, Clouds) : t \in Instants}

\* the longest list of arbitrary samples
MaxItems == 3

RECURSIVE SeqsUpTo(_, _)
SeqsUpTo(S, n) ==
    IF n = 0 THEN {<<>>}
    ELSE LET shorter == SeqsUpTo(S, n - 1)
         IN  shorter \cup {Append(s, x) : s \in {q \in shorter : Len(q) = n - 1}, x \in S}

\* the number of consecutive days a daily list can cover
MaxDailyDays == 8

\* one sample a day at 12:00Z, from 2024-12-30 on
DailyItem(k) ==
    LET t == 1735560000 + k * SecondsPerDay IN Item(t, ProviderText(t), Clear)

\* the ascending list of the chosen days
RECURSIVE DailyList(_, _)
DailyList(days, k) ==
    IF k >= MaxDailyDays THEN <<>>
    ELSE (IF k \in days THEN <<DailyItem(k)>> ELSE <<>>) \o DailyList(days, k + 1)

Reverse(s) == [i \in DOMAIN s |-> s[Len(s) + 1 - i]]
Rotate(s) ==
    LET h == Len(s) \div 2 IN SubSeq(s, h + 1, Len(s)) \o SubSeq(s, 1, h)
\* the later half interleaved before the earlier half
Shuffle(s) ==
    LET h == Len(s) \div 2
    IN  [i \in DOMAIN s |->
            IF i % 2 = 1 /\ (i + 1) \div 2 <= Len(s) - h THEN s[h + (i + 1) \div 2]
            ELSE IF i % 2 = 0 /\ i \div 2 <= h /\ i <= 2 * (Len(s) - h) THEN s[i \div 2]
            ELSE s[i - (Len(s) - h)]]

\* daily lists: any set of days, ascending, descending, rotated or interleaved
DailyLists ==
    UNION {{DailyList(days, 0), Reverse(DailyList(days, 0)),
            Rotate(DailyList(days, 0)), Shuffle(DailyList(days, 0))} :
           days \in SUBSET (0..(MaxDailyDays - 1))}

----------------------------------------------------------------------------
(* The aggregator called once on a list *)

\* the input classifier not in use
ValIdle ==
    /\ input = <<>> /\ validation = Undefined /\ apiQuery = Undefined
    /\ proxied = Undefined /\ bar = Undefined

\* the weather context not in use
CtxIdle ==
    /\ mounted = FALSE /\ state = <<>> /\ stored = <<>> /\ calls = <<>>
    /\ fetched = <<>> /\ lastStep = <<>>

InitAgg ==
    /\ items \in SeqsUpTo(Samples, MaxItems) \cup DailyLists
    /\ now \in Clocks
    /\ tz \in TimeZones
    /\ pc = "ready"
    /\ forecasts = <<>>
    /\ threw = FALSE
    /\ ValIdle
    /\ CtxIdle

\* the time that can pass between the first and the last `new Date()` of one
\* call, in seconds
ClockStep == 1

\* the `new Date()` readings of one call: transformForecastData's own reading is
\* `now`, each getDayName call reads the clock again, and the clock never goes
\* back. Only the local date of a reading is used, so the readings differ in
\* effect only when the call straddles local midnight
ClockReadings(n) ==
    IF LocalDate(now + ClockStep, tz).getDate = LocalDate(now, tz).getDate
    THEN {[i \in 1..n |-> now]}
    ELSE {[i \in 1..n |-> IF i <= k THEN now ELSE now + ClockStep] : k \in 1..n}

\* fetchForecast's call transformForecastData(data.list)
Transform ==
    /\ pc = "ready"
    /\ \E clock \in ClockReadings(Len(items) + 2) :
         \E r \in {transformForecastData(items, clock, tz)} :
           /\ forecasts' = r.value
           /\ threw' = r.threw
    /\ pc' = "done"
    /\ UNCHANGED <<items, now, tz, valVars, ctxVars>>

NextAgg == Transform

SpecAgg == InitAgg /\ [][NextAgg]_vars


----------------------------------------------------------------------------
(* validation.ts: the input classifier *)

Comma == 44
Period == 46
Apostrophe == 39

\* \d, [a-zA-Z]
IsDigit(c) == c \in 48..57
IsLetter(c) == c \in (65..90) \cup (97..122)

\* \s, and the code units String.prototype.trim() removes: white space and
\* line terminators
IsWhiteSpace(c) ==
    c \in {9, 10, 11, 12, 13, Space, 160, 5760, 8232, 8233, 8239, 8287, 12288, 65279}
        \cup (8192..8202)

\* input.trim()
trim(s) ==
    IF \A i \in DOMAIN s : IsWhiteSpace(s[i]) THEN <<>>
    ELSE LET first == CHOOSE i \in DOMAIN s :
                        ~IsWhiteSpace(s[i]) /\ \A j \in 1..(i - 1) : IsWhiteSpace(s[j])
             last == CHOOSE i \in DOMAIN s :
                        ~IsWhiteSpace(s[i]) /\ \A j \in (i + 1)..Len(s) : IsWhiteSpace(s[j])
         IN  SubSeq(s, first, last)

\* a bug: a zip code may not start with 0
zipNoLeadingZero(s) == Len(s) = 5 /\ (\A i \in DOMAIN s : IsDigit(s[i])) /\ s[1] # Zero

\* ZIP_REGEX.test(s): /^\d{5}$/
ZIP_REGEX(s) == Len(s) = 5 /\ \A i \in DOMAIN s : IsDigit(s[i])

\* [a-zA-Z\s.\-']
IsCityChar(c) == IsLetter(c) \/ IsWhiteSpace(c) \/ c \in {Period, Hyphen, Apostrophe}

\* the bound of the repetition {0,98}
MaxCityBody == 98

\* (,\s?[a-zA-Z]{2})? followed by $: t is the rest of the text
StateSuffix(t) ==
    \/ t = <<>>
    \/ /\ Len(t) \in {3, 4}
       /\ t[1] = Comma
       /\ Len(t) = 4 => IsWhiteSpace(t[2])
       /\ IsLetter(t[Len(t) - 1]) /\ IsLetter(t[Len(t)])

\* CITY_REGEX.test(s): /^[a-zA-Z][a-zA-Z\s.\-']{0,98}(,\s?[a-zA-Z]{2})?$/
CITY_REGEX(s) ==
    /\ Len(s) >= 1
    /\ IsLetter(s[1])
    /\ \E n \in 0..MaxCityBody :
         /\ n + 1 <= Len(s)
         /\ \A i \in 2..(n + 1) : IsCityChar(s[i])
         /\ StateSuffix(SubSeq(s, n + 2, Len(s)))

validateSearchInput(in) ==
    With(trim(in), LAMBDA sanitized :
        IF Len(sanitized) = 0
        THEN [isValid |-> FALSE, type |-> "invalid", sanitized |-> sanitized]
        ELSE IF ZIP_REGEX(sanitized)
        THEN [isValid |-> TRUE, type |-> "zip", sanitized |-> sanitized]
        ELSE IF CITY_REGEX(sanitized)
        THEN [isValid |-> TRUE, type |-> "city", sanitized |-> sanitized]
        ELSE [isValid |-> FALSE, type |-> "invalid", sanitized |-> sanitized])

\* the text ",US"
CommaUS == <<Comma, 85, 83>>

\* a bug: ",US" is not appended to a text that ends with it already
formatApiQueryOnce(sanitized, type) ==
    IF Len(sanitized) >= 3 /\ SubSeq(sanitized, Len(sanitized) - 2, Len(sanitized)) = CommaUS
    THEN sanitized
    ELSE sanitized \o CommaUS

\* formatApiQuery(sanitized, type); the city and state of
\* /^(.+),\s*([a-zA-Z]{2})$/ are split at the last comma
formatApiQuery(sanitized, type) ==
    IF type = "zip" THEN sanitized \o CommaUS
    ELSE LET n == Len(sanitized)
             commas == {k \in 2..(n - 2) :
                          /\ sanitized[k] = Comma
                          /\ \A j \in (k + 1)..(n - 2) : IsWhiteSpace(sanitized[j])
                          /\ \A j \in 1..(k - 1) : sanitized[j] \notin {10, 13, 8232, 8233}}
         IN  IF n >= 4 /\ IsLetter(sanitized[n - 1]) /\ IsLetter(sanitized[n]) /\ commas # {}
             THEN With(CHOOSE k \in commas : TRUE, LAMBDA k :
                      trim(SubSeq(sanitized, 1, k - 1)) \o <<Comma>>
                          \o SubSeq(sanitized, n - 1, n) \o CommaUS)
             ELSE sanitized \o CommaUS

----------------------------------------------------------------------------
(* The request to the proxy: encodeURIComponent and the handler of          *)
(* api/weather.ts                                                           *)

\* the value of a hexadecimal digit, -1 for any other code unit
HexValue(c) ==
    IF c \in 48..57 THEN c - 48
    ELSE IF c \in 97..102 THEN c - 87
    ELSE IF c \in 65..70 THEN c - 55
    ELSE -1

\* the UTF-8 bytes of code point cp
Utf8(cp) ==
    IF cp < 128 THEN <<cp>>
    ELSE IF cp < 2048 THEN <<192 + (cp \div 64), 128 + (cp % 64)>>
    ELSE IF cp < 65536
    THEN <<224 + (cp \div 4096), 128 + ((cp \div 64) % 64), 128 + (cp % 64)>>
    ELSE <<240 + (cp \div 262144), 128 + ((cp \div 4096) % 64),
           128 + ((cp \div 64) % 64), 128 + (cp % 64)>>

\* the concatenation of the sequences of ss, by halves
RECURSIVE Flatten(_)
Flatten(ss) ==
    IF Len(ss) = 0 THEN <<>>
    ELSE IF Len(ss) = 1 THEN ss[1]
    ELSE With(Len(ss) \div 2, LAMBDA half :
            Flatten(SubSeq(ss, 1, half)) \o Flatten(SubSeq(ss, half + 1, Len(ss))))

\* %XX for each byte, in upper-case hexadecimal digits
Escaped(bytes) ==
    LET hex(d) == IF d < 10 THEN Zero + d ELSE 65 + (d - 10)
    IN  [j \in 1..(3 * Len(bytes)) |->
            IF j % 3 = 1 THEN 37
            ELSE IF j % 3 = 2 THEN hex(bytes[(j + 2) \div 3] \div 16)
            ELSE hex(bytes[(j + 2) \div 3] % 16)]

\* encodeURIComponent(s): letters, digits and - _ . ! ~ * ' ( ) are kept, any
\* other character is escaped, a surrogate pair as one character; a lone
\* surrogate throws a URIError
encodeURIComponent(s) ==
    LET n == Len(s)
        high(i) == s[i] \in 55296..56319
        low(i) == s[i] \in 56320..57343
        first(i) == high(i) /\ i < n /\ low(i + 1)
        second(i) == low(i) /\ i > 1 /\ high(i - 1)
        unit(i) ==
            IF second(i) THEN <<>>
            ELSE IF first(i)
            THEN Escaped(Utf8(65536 + (s[i] - 55296) * 1024 + (s[i + 1] - 56320)))
            ELSE IF IsLetter(s[i]) \/ IsDigit(s[i])
                      \/ s[i] \in {45, 95, 46, 33, 126, 42, 39, 40, 41}
            THEN <<s[i]>>
            ELSE Escaped(Utf8(s[i]))
    IN  IF \E i \in 1..n : (high(i) /\ ~first(i)) \/ (low(i) /\ ~second(i))
        THEN [threw |-> TRUE]
        ELSE [threw |-> FALSE, value |-> Flatten([i \in 1..n |-> unit(i)])]

\* the bytes of a query value as the server reads them: + is a space, %XX a
\* byte
Unescaped(t) ==
    LET n == Len(t)
        escape(i) ==
            i >= 1 /\ i + 2 <= n /\ t[i] = 37 /\ HexValue(t[i + 1]) >= 0
                /\ HexValue(t[i + 2]) >= 0
        byte(i) ==
            IF escape(i) THEN <<16 * HexValue(t[i + 1]) + HexValue(t[i + 2])>>
            ELSE IF escape(i - 1) \/ escape(i - 2) THEN <<>>
            ELSE IF t[i] = 43 THEN <<Space>>
            ELSE <<t[i]>>
    IN  Flatten([i \in 1..n |-> byte(i)])

\* the string of UTF-8 bytes b; a byte that is part of no well-formed sequence
\* is U+FFFD
Utf16(b) ==
    LET n == Len(b)
        length(i) ==
            IF b[i] < 128 THEN 1
            ELSE IF b[i] \in 192..223 THEN 2
            ELSE IF b[i] \in 224..239 THEN 3
            ELSE IF b[i] \in 240..247 THEN 4
            ELSE 0
        wellFormed(i) ==
            /\ i >= 1
            /\ length(i) > 0
            /\ i + length(i) - 1 <= n
            /\ \A j \in (i + 1)..(i + length(i) - 1) : b[j] \in 128..191
        cp(i) ==
            IF length(i) = 1 THEN b[i]
            ELSE IF length(i) = 2 THEN (b[i] - 192) * 64 + (b[i + 1] - 128)
            ELSE IF length(i) = 3
            THEN (b[i] - 224) * 4096 + (b[i + 1] - 128) * 64 + (b[i + 2] - 128)
            ELSE (b[i] - 240) * 262144 + (b[i + 1] - 128) * 4096
                     + (b[i + 2] - 128) * 64 + (b[i + 3] - 128)
        units(i) ==
            IF wellFormed(i)
            THEN IF cp(i) < 65536 THEN <<cp(i)>>
                 ELSE <<55296 + ((cp(i) - 65536) \div 1024),
                        56320 + ((cp(i) - 65536) % 1024)>>
            ELSE IF \E k \in 1..3 : wellFormed(i - k) /\ length(i - k) > k THEN <<>>
            ELSE <<65533>>
    IN  Flatten([i \in 1..n |-> units(i)])

\* a bug: the pattern of the zip code without its country, /^\d{5}$/
isZipNoCountry(query) == Len(query) = 5 /\ \A i \in 1..5 : IsDigit(query[i])

\* /^\d{5},\w{2}$/.test(query)
isZip(query) ==
    /\ Len(query) = 8
    /\ \A i \in 1..5 : IsDigit(query[i])
    /\ query[6] = Comma
    /\ \A i \in 7..8 : IsLetter(query[i]) \/ IsDigit(query[i]) \/ query[i] = 95

\* the longest query the handler passes on
MaxQueryLength == 100

\* what the handler answers without a request upstream
Answer(status, error) == [status |-> status, error |-> error, param |-> "none"]

\* handler(req, res) for the request /api/weather?q=<encoded>: the status and
\* error it answers with, and the parameter its upstream request carries the
\* query in; upstream is the status of the provider's response, 0 when
\* fetch(owmUrl) or json() fails
handler(method, encoded, keyConfigured, upstream) ==
    With(Utf16(Unescaped(encoded)), LAMBDA query :
        IF method = "OPTIONS" THEN Answer(200, "")
        ELSE IF method # "GET" THEN Answer(405, "Method not allowed")
        ELSE IF query = <<>> THEN Answer(400, "Missing required parameter: q")
        ELSE IF Len(query) > MaxQueryLength THEN Answer(400, "Query parameter too long")
        ELSE IF ~keyConfigured THEN Answer(500, "Weather API key not configured.")
        ELSE [param |-> IF isZip(query) THEN "zip" ELSE "q",
              query |-> query,
              status |-> IF upstream = 200 THEN 200
                         ELSE IF upstream = 0 THEN 502
                         ELSE IF upstream = 401 THEN 500
                         ELSE upstream,
              error |-> IF upstream = 200 THEN ""
                        ELSE IF upstream = 0
                        THEN "Unable to connect to weather service."
                        ELSE IF upstream = 404 THEN "City not found."
                        ELSE IF upstream = 401 THEN "Weather API authentication failed."
                        ELSE "Weather service returned an error"])


----------------------------------------------------------------------------
(* The inputs of the classifier *)

\* '90210'
Text90210 == <<57, 48, 50, 49, 48>>
\* '01234'
Text01234 == <<48, 49, 50, 51, 52>>
\* 'Austin'
TextAustin == <<65, 117, 115, 116, 105, 110>>
\* 'Austin, TX'
TextAustinTX == <<65, 117, 115, 116, 105, 110, 44, 32, 84, 88>>
\* 'St. Louis'
TextStLouis == <<83, 116, 46, 32, 76, 111, 117, 105, 115>>
\* 'Winston-Salem'
TextWinstonSalem == <<87, 105, 110, 115, 116, 111, 110, 45, 83, 97, 108, 101, 109>>
\* "O'Fallon"
TextOFallon == <<79, 39, 70, 97, 108, 108, 111, 110>>
\* '!!invalid!!'
TextInvalid == <<33, 33, 105, 110, 118, 97, 108, 105, 100, 33, 33>>
\* 'austin, tx'
TextAustinLower == <<97, 117, 115, 116, 105, 110, 44, 32, 116, 120>>

\* a letter followed by 97, 98 or 99 letters, with and without a state suffix
LongNames ==
    {<<65>> \o [i \in 1..n |-> 97] \o suffix :
        n \in (MaxCityBody - 1)..(MaxCityBody + 1),
        suffix \in {<<>>, <<Comma, Space, 84, 88>>}}

\* the inputs of the tests, and inputs around them
Phrases ==
    {Text90210, Text01234, TextAustin, TextAustinTX, TextStLouis,
     TextWinstonSalem, TextOFallon, TextInvalid,
     <<57, 48, 50, 49>>,                                  \* '9021'
     <<57, 48, 50, 49, 48, 48>>,                          \* '902100'
     <<65, 117, 115, 116, 105, 110, 44, 84, 88>>,         \* 'Austin,TX'
     <<65, 117, 115, 116, 105, 110, 44, 9, 84, 88>>,      \* 'Austin,<tab>TX'
     <<65, 117, 115, 116, 105, 110, 44, 32, 32, 84, 88>>, \* 'Austin,  TX'
     <<65, 117, 115, 116, 105, 110, 44, 32, 84, 69, 88>>, \* 'Austin, TEX'
     <<78, 101, 119, 32, 89, 111, 114, 107>>,             \* 'New York'
     <<78, 101, 119, 9, 89, 111, 114, 107>>,              \* 'New<tab>York'
     <<65, 117, 115, 116, 105, 110, 64, 84, 88>>,         \* 'Austin@TX'
     <<65, 117, 115, 116, 105, 110, 49, 50, 51>>,         \* 'Austin123'
     <<51, 65, 117, 115, 116, 105, 110>>,                 \* '3Austin'
     <<57, 48, 50, 49, 48, 44, 85, 83>>,                  \* '90210,US'
     <<78, 101, 119, 10, 89, 111, 114, 107, 44, 32, 78, 89>>} \* 'New<lf>York, NY'

\* white space around an input: none, two spaces, a tab, a no-break space
Paddings == {<<>>, <<Space, Space>>, <<9>>, <<160>>}

\* the longest input made of arbitrary code units
MaxInputLen == 3

\* the inputs: every text of at most MaxInputLen code units out of A, z, 1,
\* space, tab, comma, period and @, and the phrases and long names with white
\* space around them
Inputs ==
    SeqsUpTo({65, 122, 49, Space, 9, Comma, Period, 64}, MaxInputLen)
        \cup {before \o core \o after :
                before \in Paddings, core \in Phrases \cup LongNames, after \in Paddings}

InitVal ==
    /\ input \in Inputs
    /\ validation = Undefined
    /\ apiQuery = Undefined
    /\ proxied = Undefined
    /\ bar = Undefined
    /\ items = <<>> /\ now = 0 /\ tz = 0 /\ pc = "idle" /\ forecasts = <<>> /\ threw = FALSE
    /\ CtxIdle

\* validateSearchInput has been called
Validated == ~IsUndefined(validation)

\* a call validateSearchInput(input)
Validate ==
    /\ IsUndefined(validation)
    /\ IsUndefined(apiQuery)
    /\ pc = "idle"
    /\ validation' = validateSearchInput(input)
    /\ UNCHANGED <<input, apiQuery, proxied, bar, aggVars, ctxVars>>

\* fetchWeather's call formatApiQuery(validation.sanitized, validation.type)
\* for a valid input
Format ==
    /\ Validated
    /\ validation.isValid
    /\ IsUndefined(apiQuery)
    /\ apiQuery' = [sanitized |-> validation.sanitized, type |-> validation.type,
                    value |-> formatApiQuery(validation.sanitized, validation.type)]
    /\ UNCHANGED <<input, validation, proxied, bar, aggVars, ctxVars>>

\* formatApiQuery(s, type) called on any text, as the unit tests call it
FormatDirect ==
    /\ ~Validated
    /\ IsUndefined(apiQuery)
    /\ \E type \in {"city", "zip"} :
         apiQuery' = [sanitized |-> input, type |-> type,
                      value |-> formatApiQuery(input, type)]
    /\ UNCHANGED <<input, validation, proxied, bar, aggVars, ctxVars>>

\* fetchForecast requests /api/weather?q=encodeURIComponent(apiQuery) and the
\* handler answers; a request with another method reaches the handler too, and
\* the provider answers 200, 401, 404 or 429, or does not answer (0)
Handler ==
    /\ ~IsUndefined(apiQuery)
    /\ IsUndefined(proxied)
    /\ \E url \in {encodeURIComponent(apiQuery.value)} :
         /\ ~url.threw
         /\ \E method \in {"GET", "OPTIONS", "POST"}, keyConfigured \in BOOLEAN,
               upstream \in {200, 0, 401, 404, 429} :
              proxied' = handler(method, url.value, keyConfigured, upstream)
    /\ UNCHANGED <<input, validation, apiQuery, bar, aggVars, ctxVars>>

NextVal == Validate \/ Format \/ FormatDirect \/ Handler

SpecVal == InitVal /\ [][NextVal]_vars

----------------------------------------------------------------------------
(* SearchBar.tsx: the search form *)

\* a bug: the form can be submitted while a search is loading
canSubmitLoading(text, loading) == validateSearchInput(text).isValid

\* canSubmit of the render with this input and this loading prop
canSubmit(text, loading) == validateSearchInput(text).isValid /\ ~loading

\* the texts typed: those of the tests ('  Austin, TX  ', '90210',
\* '!!invalid!!'), a name and the empty text
BarTexts ==
    {<<>>, <<Space, Space>> \o TextAustinTX \o <<Space, Space>>, Text90210, TextInvalid,
     TextAustin}

\* the number of times the form is submitted
MaxSubmits == 2

\* the first render: useState('') and useState(false), loading false, and no
\* call of onSearch yet, after no submit event
InitBar ==
    /\ bar = [input |-> <<>>, touched |-> FALSE, loading |-> FALSE, searches |-> <<>>,
              submits |-> 0]
    /\ input = <<>> /\ validation = Undefined /\ apiQuery = Undefined
    /\ proxied = Undefined
    /\ items = <<>> /\ now = 0 /\ tz = 0 /\ pc = "idle" /\ forecasts = <<>> /\ threw = FALSE
    /\ CtxIdle

\* handleChange: the user edits the input
HandleChange ==
    /\ ~IsUndefined(bar)
    /\ \E text \in BarTexts :
         bar' = [bar EXCEPT !.input = text, !.touched = TRUE]
    /\ UNCHANGED <<input, validation, apiQuery, proxied, aggVars, ctxVars>>

\* handleSubmit: the form is submitted, by the button or the Enter key
HandleSubmit ==
    /\ ~IsUndefined(bar)
    /\ bar.submits < MaxSubmits
    /\ bar' = IF ~canSubmit(bar.input, bar.loading)
              THEN [bar EXCEPT !.submits = @ + 1]
              ELSE [bar EXCEPT !.submits = @ + 1,
                               !.searches = Append(@, validateSearchInput(bar.input).sanitized),
                               !.input = <<>>,
                               !.touched = FALSE]
    /\ UNCHANGED <<input, validation, apiQuery, proxied, aggVars, ctxVars>>

\* the parent renders the form with another loading prop
RenderLoading ==
    /\ ~IsUndefined(bar)
    /\ bar' = [bar EXCEPT !.loading = ~@]
    /\ UNCHANGED <<input, validation, apiQuery, proxied, aggVars, ctxVars>>

NextBar == HandleChange \/ HandleSubmit \/ RenderLoading

SpecBar == InitBar /\ [][NextBar]_vars


----------------------------------------------------------------------------
(* JSON.stringify of a string array and JSON.parse, as localStorage sees them *)

Quote == 34
Backslash == 92

\* the values of JSON.parse
JsonString(chars) == [type |-> "string", value |-> chars]
JsonNumber(n) == [type |-> "number", value |-> n]
JsonLiteral(name) == [type |-> name]
JsonArray(elements) == [type |-> "array", value |-> elements]
JsonObject(members) == [type |-> "object", value |-> members]

\* the lower-case hexadecimal digit of d
HexDigit(d) == IF d < 10 THEN Zero + d ELSE 97 + (d - 10)

\* one code unit of a string as JSON.stringify writes it
QuoteUnit(c) ==
    IF c = Quote THEN <<Backslash, Quote>>
    ELSE IF c = Backslash THEN <<Backslash, Backslash>>
    ELSE IF c = 8 THEN <<Backslash, 98>>
    ELSE IF c = 9 THEN <<Backslash, 116>>
    ELSE IF c = 10 THEN <<Backslash, 110>>
    ELSE IF c = 12 THEN <<Backslash, 102>>
    ELSE IF c = 13 THEN <<Backslash, 114>>
    ELSE IF c < 32 THEN <<Backslash, 117, Zero, Zero, HexDigit(c \div 16), HexDigit(c % 16)>>
    ELSE <<c>>

\* the strings of this model hold no surrogate code units
RECURSIVE QuoteUnits(_, _)
QuoteUnits(str, i) ==
    IF i > Len(str) THEN <<>> ELSE QuoteUnit(str[i]) \o QuoteUnits(str, i + 1)

QuoteString(str) == <<Quote>> \o QuoteUnits(str, 1) \o <<Quote>>

RECURSIVE StringifyFrom(_, _)
StringifyFrom(searches, i) ==
    IF i > Len(searches) THEN <<>>
    ELSE (IF i > 1 THEN <<Comma>> ELSE <<>>)
             \o QuoteString(searches[i]) \o StringifyFrom(searches, i + 1)

\* JSON.stringify(searches) for a string[]
JSONstringify(searches) == <<91>> \o StringifyFrom(searches, 1) \o <<93>>


\* the result of parsing from a position: a failure, or a value and the
\* position after it
ParseFail == [ok |-> FALSE]
ParseOk(v, next) == [ok |-> TRUE, value |-> v, next |-> next]

\* the white space of JSON: space, tab, line feed, carriage return
RECURSIVE SkipWs(_, _)
SkipWs(t, i) ==
    IF i <= Len(t) /\ t[i] \in {Space, 9, 10, 13} THEN SkipWs(t, i + 1) ELSE i

\* t has word at position i
HasAt(t, i, word) == i + Len(word) - 1 <= Len(t) /\ SubSeq(t, i, i + Len(word) - 1) = word

\* the code unit an escape \c stands for, -1 when there is no such escape
EscapeUnit(c) ==
    IF c \in {Quote, Backslash, 47} THEN c
    ELSE IF c = 98 THEN 8
    ELSE IF c = 102 THEN 12
    ELSE IF c = 110 THEN 10
    ELSE IF c = 114 THEN 13
    ELSE IF c = 116 THEN 9
    ELSE -1

\* the characters of a string literal from position i on, acc those before
RECURSIVE ParseChars(_, _, _)
ParseChars(t, i, acc) ==
    IF i > Len(t) \/ t[i] < 32 THEN ParseFail
    ELSE IF t[i] = Quote THEN ParseOk(JsonString(acc), i + 1)
    ELSE IF t[i] # Backslash THEN With(Append(acc, t[i]), LAMBDA a : ParseChars(t, i + 1, a))
    ELSE IF i + 1 > Len(t) THEN ParseFail
    ELSE IF t[i + 1] = 117
    THEN IF i + 5 <= Len(t) /\ \A k \in 2..5 : HexValue(t[i + k]) >= 0
         THEN With(Append(acc, 4096 * HexValue(t[i + 2]) + 256 * HexValue(t[i + 3])
                                   + 16 * HexValue(t[i + 4]) + HexValue(t[i + 5])),
                   LAMBDA a : ParseChars(t, i + 6, a))
         ELSE ParseFail
    ELSE IF EscapeUnit(t[i + 1]) >= 0
    THEN With(Append(acc, EscapeUnit(t[i + 1])), LAMBDA a : ParseChars(t, i + 2, a))
    ELSE ParseFail

\* an integer literal: the numbers of this model have no sign, fraction or exponent
RECURSIVE ParseDigits(_, _, _)
ParseDigits(t, i, n) ==
    IF i <= Len(t) /\ IsDigit(t[i]) THEN ParseDigits(t, i + 1, 10 * n + (t[i] - Zero))
    ELSE ParseOk(JsonNumber(n), i)

ParseNumber(t, i) ==
    IF t[i] = Zero THEN ParseOk(JsonNumber(0), i + 1) ELSE ParseDigits(t, i, 0)

RECURSIVE ParseValue(_, _)
RECURSIVE ParseElements(_, _, _)
RECURSIVE ParseMembers(_, _, _)

\* the elements of an array after `[` or after a comma, acc those before
ParseElements(t, i, acc) ==
    With(ParseValue(t, SkipWs(t, i)), LAMBDA v :
        IF ~v.ok THEN ParseFail
        ELSE With(SkipWs(t, v.next), LAMBDA j :
             With(Append(acc, v.value), LAMBDA a :
                IF j > Len(t) THEN ParseFail
                ELSE IF t[j] = Comma THEN ParseElements(t, j + 1, a)
                ELSE IF t[j] = 93 THEN ParseOk(JsonArray(a), j + 1)
                ELSE ParseFail)))

\* the members of an object after `{` or after a comma, acc those before
ParseMembers(t, i, acc) ==
    With(SkipWs(t, i), LAMBDA k :
        IF k > Len(t) \/ t[k] # Quote THEN ParseFail
        ELSE With(ParseChars(t, k + 1, <<>>), LAMBDA key :
            IF ~key.ok THEN ParseFail
            ELSE With(SkipWs(t, key.next), LAMBDA c :
                IF c > Len(t) \/ t[c] # Colon THEN ParseFail
                ELSE With(ParseValue(t, SkipWs(t, c + 1)), LAMBDA v :
                    IF ~v.ok THEN ParseFail
                    ELSE With(SkipWs(t, v.next), LAMBDA j :
                         With(Append(acc, [key |-> key.value.value, value |-> v.value]),
                              LAMBDA a :
                            IF j > Len(t) THEN ParseFail
                            ELSE IF t[j] = Comma THEN ParseMembers(t, j + 1, a)
                            ELSE IF t[j] = 125 THEN ParseOk(JsonObject(a), j + 1)
                            ELSE ParseFail))))))

\* the JSON value that starts at position i
ParseValue(t, i) ==
    IF i > Len(t) THEN ParseFail
    ELSE IF t[i] = Quote THEN ParseChars(t, i + 1, <<>>)
    ELSE IF IsDigit(t[i]) THEN ParseNumber(t, i)
    ELSE IF HasAt(t, i, <<110, 117, 108, 108>>) THEN ParseOk(JsonLiteral("null"), i + 4)
    ELSE IF HasAt(t, i, <<116, 114, 117, 101>>) THEN ParseOk(JsonLiteral("true"), i + 4)
    ELSE IF HasAt(t, i, <<102, 97, 108, 115, 101>>) THEN ParseOk(JsonLiteral("false"), i + 5)
    ELSE IF t[i] = 91
    THEN With(SkipWs(t, i + 1), LAMBDA j :
            IF j <= Len(t) /\ t[j] = 93 THEN ParseOk(JsonArray(<<>>), j + 1)
            ELSE ParseElements(t, j, <<>>))
    ELSE IF t[i] = 123
    THEN With(SkipWs(t, i + 1), LAMBDA j :
            IF j <= Len(t) /\ t[j] = 125 THEN ParseOk(JsonObject(<<>>), j + 1)
            ELSE ParseMembers(t, j, <<>>))
    ELSE ParseFail

\* JSON.parse(text): threw, or the value of the whole text
JSONparse(text) ==
    With(ParseValue(text, SkipWs(text, 1)), LAMBDA v :
        IF v.ok /\ SkipWs(text, v.next) > Len(text)
        THEN [threw |-> FALSE, value |-> v.value]
        ELSE [threw |-> TRUE])


----------------------------------------------------------------------------
(* WeatherContext.tsx: the state of the provider and its helpers *)

\* null, and a value that is not null
Null == [null |-> TRUE]
Some(v) == [null |-> FALSE, value |-> v]

MAX_RECENT_SEARCHES == 5

\* array.slice(0, n)
slice(s, n) == SubSeq(s, 1, IF Len(s) < n THEN Len(s) ELSE n)

\* s.toLowerCase() for the code units of this model: A-Z become a-z
toLowerCase(s) == [i \in DOMAIN s |-> IF s[i] \in 65..90 THEN s[i] + 32 ELSE s[i]]

\* a bug: an array of more than 5 stored strings taken whole
loadWhole(item, getItemThrows) ==
    IF getItemThrows \/ item.null \/ item.value = <<>> THEN <<>>
    ELSE With(JSONparse(item.value), LAMBDA parsed :
            IF parsed.threw THEN <<>>
            ELSE IF /\ parsed.value.type = "array"
                    /\ \A i \in DOMAIN parsed.value.value :
                         parsed.value.value[i].type = "string"
            THEN [i \in DOMAIN parsed.value.value |-> parsed.value.value[i].value]
            ELSE <<>>)

\* loadRecentSearches(): item is localStorage.getItem(STORAGE_KEY), which
\* throws when getItemThrows
loadRecentSearches(item, getItemThrows) ==
    IF getItemThrows \/ item.null \/ item.value = <<>> THEN <<>>
    ELSE With(JSONparse(item.value), LAMBDA parsed :
            IF parsed.threw THEN <<>>
            ELSE IF /\ parsed.value.type = "array"
                    /\ \A i \in DOMAIN parsed.value.value :
                         parsed.value.value[i].type = "string"
            THEN slice([i \in DOMAIN parsed.value.value |-> parsed.value.value[i].value],
                       MAX_RECENT_SEARCHES)
            ELSE <<>>)

\* saveRecentSearches(searches): the stored item afterwards; setItem throws
\* when setItemThrows
saveRecentSearches(searches, item, setItemThrows) ==
    IF setItemThrows THEN item ELSE Some(JSONstringify(searches))

\* mapOWMCondition(owmCondition)
mapOWMCondition(owmCondition) ==
    IF owmCondition \in {"Clear", "Clouds", "Rain", "Drizzle", "Thunderstorm", "Snow",
                         "Mist", "Fog", "Haze"}
    THEN owmCondition
    ELSE IF owmCondition \in {"Smoke", "Ash"} THEN "Fog"
    ELSE IF owmCondition \in {"Dust", "Sand"} THEN "Haze"
    ELSE IF owmCondition \in {"Squall", "Tornado"} THEN "Thunderstorm"
    ELSE "Default"


\* the message of fetchForecast for a response with `ok` false and no `error`
\* in its body
UnavailableMessage(status) ==
    IF status = 404 THEN "Weather data unavailable (404)"
    ELSE IF status = 500 THEN "Weather data unavailable (500)"
    ELSE "Weather data unavailable"

\* thrown values: an Error with its message, or a value that is no Error
ErrorOf(message) == [isError |-> TRUE, message |-> message]
NonError(v) == [isError |-> FALSE, message |-> v]

\* fetchForecast(query) given what fetch(url) does: it rejects with
\* response.error, or resolves to a response with `ok`, `status` and the body
\* its json() resolves to (Null when json() rejects)
fetchForecast(response, clock, zone) ==
    IF response.kind = "reject" THEN [threw |-> TRUE, error |-> response.error]
    ELSE IF ~response.ok
    THEN [threw |-> TRUE,
          error |-> ErrorOf(IF ~response.body.null /\ ~response.body.value.error.null
                            THEN response.body.value.error.value
                            ELSE UnavailableMessage(response.status))]
    ELSE IF response.body.null
    THEN [threw |-> TRUE, error |-> ErrorOf("Unexpected end of JSON input")]
    ELSE With(transformForecastData(response.body.value.list, clock, zone), LAMBDA r :
            IF r.threw
            THEN [threw |-> TRUE,
                  error |-> ErrorOf("Cannot read properties of undefined (reading 'main')")]
            ELSE [threw |-> FALSE,
                  forecast |-> r.value,
                  cityName |-> response.body.value.city.name \o <<Comma, Space>>
                                   \o response.body.value.city.country])

InvalidMessage == "Please enter a valid US city name or 5-digit zip code."
UnexpectedMessage == "An unexpected error occurred."

\* useState's initial WeatherState
InitialState(recent) ==
    [forecast |-> Null, cityName |-> <<>>, recentSearches |-> recent, loading |-> FALSE,
     error |-> Null, currentCondition |-> "Default", selectedDay |-> Null]

\* the updater of an invalid search
setInvalid(prev) == [prev EXCEPT !.error = Some(InvalidMessage)]

\* the updater that starts a fetch
setLoading(prev) == [prev EXCEPT !.loading = TRUE, !.error = Null]

\* the new list of recent searches
newSearches(recent, sanitized) ==
    slice(<<sanitized>>
              \o SelectSeq(recent, LAMBDA x : toLowerCase(x) # toLowerCase(sanitized)),
          MAX_RECENT_SEARCHES)

\* a bug: a success keeps the city name shown before
setSuccessKeepsCity(prev, sanitized, result) ==
    [prev EXCEPT !.forecast = Some(result.forecast),
                 !.recentSearches = newSearches(prev.recentSearches, sanitized),
                 !.loading = FALSE,
                 !.error = Null,
                 !.currentCondition =
                     IF Len(result.forecast) > 0
                     THEN mapOWMCondition(result.forecast[1].condition)
                     ELSE "Default"]

\* the updater of a fetch that succeeded
setSuccess(prev, sanitized, result) ==
    [prev EXCEPT !.forecast = Some(result.forecast),
                 !.cityName = result.cityName,
                 !.recentSearches = newSearches(prev.recentSearches, sanitized),
                 !.loading = FALSE,
                 !.error = Null,
                 !.currentCondition =
                     IF Len(result.forecast) > 0
                     THEN mapOWMCondition(result.forecast[1].condition)
                     ELSE "Default"]

\* a bug: the message of a thrown value that is no Error taken from the value
messageOfAny(err) == err.message

\* err instanceof Error ? err.message : 'An unexpected error occurred.'
messageOf(err) == IF err.isError THEN err.message ELSE UnexpectedMessage

\* a bug: a failure clears the forecast
setFailureClears(prev, err) ==
    [prev EXCEPT !.forecast = Null, !.loading = FALSE, !.error = Some(messageOf(err))]

\* the updater of a fetch that failed
setFailure(prev, err) == [prev EXCEPT !.loading = FALSE, !.error = Some(messageOf(err))]


----------------------------------------------------------------------------
(* The weather context: its inputs *)

\* six stored entries, no two of them equal ignoring case; the second holds a
\* tab, a quotation mark and a backslash: 'a<tab>"\'
SixEntries ==
    <<TextAustin, <<97, 9, Quote, Backslash>>, TextStLouis, TextWinstonSalem,
      TextOFallon, Text01234>>

\* the lists a stored item can hold: none, four or six entries, and two
\* entries equal ignoring case
StoredLists ==
    {SubSeq(SixEntries, 1, n) : n \in {0, 4, 6}} \cup {<<TextAustinLower, TextAustinTX>>}

\* the stored items: none, the empty text, the corrupted items of the tests,
\* and what JSON.stringify writes for a list
StoredItems ==
    {Null, Some(<<>>),
     \* 'not valid json{{{}'
     Some(<<110, 111, 116, 32, 118, 97, 108, 105, 100, 32, 106, 115, 111, 110,
            123, 123, 123, 125>>),
     \* '{"not":"an array"}'
     Some(<<123, 34, 110, 111, 116, 34, 58, 34, 97, 110, 32, 97, 114, 114, 97,
            121, 34, 125>>),
     \* '[123,null,"valid"]'
     Some(<<91, 49, 50, 51, 44, 110, 117, 108, 108, 44, 34, 118, 97, 108, 105,
            100, 34, 93>>)}
        \cup {Some(JSONstringify(list)) : list \in StoredLists}

\* the queries of the test consumer's buttons ('Austin, TX', '90210', '',
\* '!!invalid!!'), and ' austin, tx '
Queries ==
    {TextAustinTX, <<Space>> \o TextAustinLower \o <<Space>>, Text90210, <<>>, TextInvalid}

\* a sample whose weather array is empty
NoWeather == [Clear EXCEPT !.weather = <<>>]

\* what fetch(url) can do: resolve with a forecast for Austin or for Boston,
\* with a malformed list, with 404 and an error body; reject with an Error or
\* with a string
OkResponse(list, name) ==
    [kind |-> "resolve", ok |-> TRUE, status |-> 200,
     body |-> Some([list |-> list, city |-> [name |-> name, country |-> <<85, 83>>]])]
Responses ==
    {OkResponse(<<Item(1735646400, ProviderText(1735646400), Clear)>>, TextAustin),
     OkResponse(<<Item(1735646400, ProviderText(1735646400), Rain)>>,
                <<66, 111, 115, 116, 111, 110>>),  \* 'Boston'
     OkResponse(<<Item(1735646400, ProviderText(1735646400), NoWeather)>>, TextAustin),
     [kind |-> "resolve", ok |-> FALSE, status |-> 404,
      body |-> Some([error |-> Some("City not found")])],
     [kind |-> "reject", error |-> ErrorOf("Network failure")],
     [kind |-> "reject", error |-> NonError("some string error")]}

\* the number of fetchWeather calls that reach fetch
MaxCalls == 2


----------------------------------------------------------------------------
(* The weather context: its steps *)

\* a step: its kind, the query of a fetchWeather call, the call that settled,
\* and what getItem and setItem did ("none" when not called)
Step(event, query, call, read, write) ==
    [event |-> event, query |-> query, call |-> call, read |-> read, write |-> write]

InitCtx ==
    /\ mounted = FALSE
    /\ state = InitialState(<<>>)
    /\ stored \in StoredItems
    /\ calls = <<>>
    /\ fetched = <<>>
    /\ lastStep = Step("none", <<>>, 0, "none", "none")
    /\ items = <<>> /\ now = 1735588800 /\ tz = -21600 /\ pc = "idle"
    /\ forecasts = <<>> /\ threw = FALSE
    /\ ValIdle

\* the first render of WeatherProvider and its effect: the list is loaded, and
\* saved again; localStorage may throw on either access
Mount ==
    /\ ~mounted
    /\ \E getItemThrows, setItemThrows \in BOOLEAN :
         \E recent \in {loadRecentSearches(stored, getItemThrows)} :
           /\ state' = InitialState(recent)
           /\ stored' = saveRecentSearches(recent, stored, setItemThrows)
           /\ lastStep' = Step("mount", <<>>, 0, IF getItemThrows THEN "failed" ELSE "read",
                               IF setItemThrows THEN "failed" ELSE "saved")
    /\ mounted' = TRUE
    /\ UNCHANGED <<calls, fetched, aggVars, valVars>>

\* a call in flight
Call(v) ==
    [sanitized |-> v.sanitized, outcome |-> "pending", order |-> 0, result |-> Null,
     rejected |-> FALSE]

\* call c settled: the outcome of its fetchForecast, its place among the
\* settled calls, and whether fetchWeather's promise rejected
SettledCall(c, outcome, order, rejected) ==
    [sanitized |-> c.sanitized, outcome |-> IF outcome.threw THEN "failure" ELSE "success",
     order |-> order, result |-> Some(outcome), rejected |-> rejected]

\* a bug: fetchWeather does not validate the query
FetchWeatherUnchecked(query) ==
    /\ mounted
    /\ \E v \in {validateSearchInput(query)} :
         /\ Len(calls) < MaxCalls
         /\ state' = setLoading(state)
         /\ calls' = Append(calls, Call(v))
         /\ fetched' = Append(fetched, formatApiQuery(v.sanitized, "city"))
         /\ lastStep' = Step(IF v.isValid THEN "start" ELSE "invalid", query,
                             Len(calls) + 1, "none", "none")
    /\ UNCHANGED <<mounted, stored, aggVars, valVars>>

\* fetchWeather(query) up to its `await`: an invalid query sets the error and
\* returns; a valid one sets loading and calls fetchForecast
FetchWeather(query) ==
    /\ mounted
    /\ \E v \in {validateSearchInput(query)} :
         IF ~v.isValid
         THEN /\ state' = setInvalid(state)
              /\ lastStep' = Step("invalid", query, 0, "none", "none")
              /\ UNCHANGED <<calls, fetched>>
         ELSE /\ Len(calls) < MaxCalls
              /\ state' = setLoading(state)
              /\ calls' = Append(calls, Call(v))
              /\ fetched' = Append(fetched, formatApiQuery(v.sanitized, v.type))
              /\ lastStep' = Step("start", query, Len(calls) + 1, "none", "none")
    /\ UNCHANGED <<mounted, stored, aggVars, valVars>>

\* the calls that have settled
Settled == {i \in DOMAIN calls : calls[i].outcome # "pending"}

\* a bug: a response is dropped when no fetch is shown as in progress
dropWhenIdle(prev, sanitized, outcome) ==
    IF ~prev.loading THEN [state |-> prev, rejected |-> FALSE]
    ELSE IF ~outcome.threw
    THEN [state |-> setSuccess(prev, sanitized, outcome), rejected |-> FALSE]
    ELSE [state |-> setFailure(prev, outcome.error), rejected |-> FALSE]

\* a bug: no catch block, a failure leaves the state as it is and rejects
tryNoCatch(prev, sanitized, outcome) ==
    IF ~outcome.threw
    THEN [state |-> setSuccess(prev, sanitized, outcome), rejected |-> FALSE]
    ELSE [state |-> prev, rejected |-> TRUE]

\* the try and catch blocks of fetchWeather once fetchForecast has settled
\* with outcome
tryCatch(prev, sanitized, outcome) ==
    IF ~outcome.threw
    THEN [state |-> setSuccess(prev, sanitized, outcome), rejected |-> FALSE]
    ELSE [state |-> setFailure(prev, outcome.error), rejected |-> FALSE]

\* a bug: the effect saves after every update of the state
effectAlways(outcome) == TRUE

\* the effect runs when state.recentSearches is another array than before:
\* setSuccess builds a new array, setFailure keeps the old one
effectRuns(outcome) == ~outcome.threw

\* the rest of call i of fetchWeather, fetch having settled with response: the
\* state is updated and, after a success, the effect saves the list
Settle(i, response) ==
    /\ calls[i].outcome = "pending"
    /\ \E clock \in ClockReadings(3), setItemThrows \in BOOLEAN :
         \E outcome \in {fetchForecast(response, clock, tz)} :
           \E r \in {tryCatch(state, calls[i].sanitized, outcome)} :
             /\ state' = r.state
             /\ calls' = [calls EXCEPT ![i] =
                   SettledCall(calls[i], outcome, Cardinality(Settled) + 1, r.rejected)]
             /\ stored' = IF effectRuns(outcome)
                          THEN saveRecentSearches(r.state.recentSearches, stored,
                                                  setItemThrows)
                          ELSE stored
             /\ lastStep' = Step(IF outcome.threw THEN "failure" ELSE "success", <<>>, i,
                                 "none",
                                 IF ~effectRuns(outcome) THEN "none"
                                 ELSE IF setItemThrows THEN "failed" ELSE "saved")
    /\ UNCHANGED <<mounted, fetched, aggVars, valVars>>

\* clearError()
ClearError ==
    /\ mounted
    /\ state' = [state EXCEPT !.error = Null]
    /\ lastStep' = Step("clear", <<>>, 0, "none", "none")
    /\ UNCHANGED <<mounted, stored, calls, fetched, aggVars, valVars>>

NextCtx ==
    \/ Mount
    \/ \E query \in Queries : FetchWeather(query)
    \/ \E i \in DOMAIN calls, response \in Responses : Settle(i, response)
    \/ ClearError

SpecCtx == InitCtx /\ [][NextCtx]_vars

----------------------------------------------------------------------------
(* The weather context with the detail modal: searches, selectDay and       *)
(* closeModal                                                               *)

\* selectDay(day) for a day of the forecast the caller renders
SelectDay ==
    /\ mounted
    /\ ~state.forecast.null
    /\ \E k \in DOMAIN state.forecast.value :
         state' = [state EXCEPT !.selectedDay = Some(state.forecast.value[k])]
    /\ lastStep' = Step("select", <<>>, 0, "none", "none")
    /\ UNCHANGED <<mounted, stored, calls, fetched, aggVars, valVars>>

\* closeModal()
CloseModal ==
    /\ mounted
    /\ state' = [state EXCEPT !.selectedDay = Null]
    /\ lastStep' = Step("close", <<>>, 0, "none", "none")
    /\ UNCHANGED <<mounted, stored, calls, fetched, aggVars, valVars>>

\* what fetch(url) does meanwhile: it resolves with a forecast for Austin or
\* for Boston, with an empty list, with a list the aggregator throws on, or
\* rejects
ModalResponses ==
    {OkResponse(<<Item(1735646400, ProviderText(1735646400), Clear)>>, TextAustin),
     OkResponse(<<Item(1735646400, ProviderText(1735646400), Rain)>>,
                <<66, 111, 115, 116, 111, 110>>),
     OkResponse(<<>>, TextAustin),
     OkResponse(<<Item(1735646400, ProviderText(1735646400), NoWeather)>>, TextAustin),
     [kind |-> "reject", error |-> ErrorOf("Network failure")]}

\* no item stored at the start
InitModal == InitCtx /\ stored = Null

NextModal ==
    \/ Mount
    \/ \E query \in {TextAustinTX, TextInvalid} : FetchWeather(query)
    \/ \E i \in DOMAIN calls, response \in ModalResponses : Settle(i, response)
    \/ SelectDay
    \/ CloseModal

SpecModal == InitModal /\ [][NextModal]_vars

\* every fetch issued settles: fetch(url) resolves or rejects in the end
SpecModalFair ==
    SpecModal /\ \A i \in 1..MaxCalls :
                    WF_vars(\E response \in ModalResponses : i \in DOMAIN calls /\ Settle(i, response))

----------------------------------------------------------------------------
(* The vocabulary of the properties: calendar days as day numbers *)

Done == pc = "done"

\* the local calendar day of an instant, as a day number
DayOf(t) == (t + tz) \div SecondsPerDay
TodayDay == DayOf(now)
InputDays == {DayOf(items[i].dt) : i \in DOMAIN items}

\* the calendar day a date key "YYYY-MM-DD" names
DayNumber(key) == DaysFromCivil(Number4(key, 1), Number2(key, 6), Number2(key, 9))

Dates == [i \in DOMAIN forecasts |-> DayNumber(forecasts[i].date)]

\* the elements of a finite set of integers in ascending order
RECURSIVE Ascending(_)
Ascending(S) ==
    IF S = {} THEN <<>>
    ELSE LET m == CHOOSE x \in S : \A y \in S : x <= y
         IN  <<m>> \o Ascending(S \ {m})

FirstN(s, n) == SubSeq(s, 1, IF Len(s) < n THEN Len(s) ELSE n)

\* the input has samples and none of them is on or before today
TodayMissing == items # <<>> /\ \A d \in InputDays : TodayDay < d

\* the days the output is built from: today first when it is missing
KeyDays == (IF TodayMissing THEN <<TodayDay>> ELSE <<>>) \o Ascending(InputDays)

\* the input samples of one calendar day, in input order
RECURSIVE SamplesOn(_, _)
SamplesOn(list, d) ==
    IF list = <<>> THEN <<>>
    ELSE (IF DayOf(list[1].dt) = d THEN <<list[1]>> ELSE <<>>) \o SamplesOn(Tail(list), d)

\* the input is not in ascending order of time
Unsorted == \E i, j \in DOMAIN items : i < j /\ items[j].dt < items[i].dt

----------------------------------------------------------------------------
(* C1 *)

\* C1: the returned sequence has at most 6 entries and its date keys are
\* strictly increasing, as strings and as calendar days, for every sample list
\* and every today, the synthesized today included.
C1_BoundedSorted ==
    Done =>
        /\ Len(forecasts) <= 6
        /\ \A i \in 1..(Len(forecasts) - 1) :
             /\ StrLess(forecasts[i].date, forecasts[i + 1].date)
             /\ Dates[i] < Dates[i + 1]

\* an unsorted list of more than 6 days with today synthesized: 6 summaries
C1_Witness ==
    /\ Done /\ TodayMissing /\ Unsorted
    /\ Cardinality(InputDays) > 6
    /\ Len(forecasts) = 6
    /\ Dates[1] = TodayDay

(* C2 *)

\* C2 as stated: N distinct days give N summaries when N <= 6, and the 6
\* earliest dates in ascending order when N > 6.
C2_Original ==
    Done =>
        LET N == Cardinality(InputDays)
        IN  IF N <= 6 THEN Len(forecasts) = N
            ELSE Dates = FirstN(Ascending(InputDays), 6)

\* C2 amended: when the earliest sample day is not after today, N distinct days give the N summaries of those days when
\* N <= 6 and those of the 6 earliest days when N > 6; when every sample day
\* is after today, today comes first and counts toward the cap: the output is
\* today followed by the min(N, 5) earliest days.
C2_CountAndCap ==
    Done =>
        LET N == Cardinality(InputDays)
        IN  /\ Dates = FirstN(KeyDays, 6)
            /\ ~TodayMissing => Len(forecasts) = (IF N <= 6 THEN N ELSE 6)
            /\ TodayMissing => Len(forecasts) = (IF N <= 5 THEN N + 1 ELSE 6)

\* more than 6 days, the earliest not after today: the 6 earliest are kept
C2_Witness ==
    /\ Done /\ ~TodayMissing /\ Unsorted
    /\ Cardinality(InputDays) > 6
    /\ Dates = FirstN(Ascending(InputDays), 6)

(* C3 *)

\* C3: when the input is non-empty and its earliest date is after today, the
\* first summary is dated today and its hourly list is exactly the transform
\* of items[0]; the summaries after it are the real dates in ascending order.
C3_TodayPlaceholder ==
    (Done /\ TodayMissing) =>
        /\ Len(forecasts) >= 2
        /\ forecasts[1].date = dateKey(LocalDate(now, tz))
        /\ forecasts[1].hourly = <<transformHourlyItem(items[1])>>
        /\ Tail(Dates) = FirstN(Ascending(InputDays), Len(forecasts) - 1)

\* today synthesized from an items[0] that is not the earliest sample and
\* whose record differs from that of the last sample
C3_Witness ==
    /\ Done /\ TodayMissing
    /\ Len(items) >= 2
    /\ \E i \in DOMAIN items : items[i].dt < items[1].dt
    /\ transformHourlyItem(items[1]) # transformHourlyItem(items[Len(items)])
    /\ forecasts[1].hourly = <<transformHourlyItem(items[1])>>
    /\ Len(forecasts) >= 3

(* C4 *)

C5_NoSampleDropped ==
    Done =>
        /\ \A i \in DOMAIN forecasts :
             IF Dates[i] \in InputDays
             THEN LET b == SamplesOn(items, Dates[i])
                  IN  forecasts[i].hourly = [k \in DOMAIN b |-> transformHourlyItem(b[k])]
             ELSE Len(forecasts[i].hourly) = 1
        /\ Len(KeyDays) <= 6 =>
             \A d \in InputDays : \E i \in DOMAIN forecasts : Dates[i] = d

\* two different samples of one day, a sample of another day between them
C5_Witness ==
    /\ Done /\ Len(items) = 3
    /\ DayOf(items[1].dt) = DayOf(items[3].dt)
    /\ DayOf(items[1].dt) # DayOf(items[2].dt)
    /\ transformHourlyItem(items[1]) # transformHourlyItem(items[3])
    /\ \E i \in DOMAIN forecasts :
         forecasts[i].hourly = <<transformHourlyItem(items[1]), transformHourlyItem(items[3])>>

(* C6 *)

\* C6: every returned summary has tempHigh >= tempLow and a non-empty hourly
\* list.
C6_HighLowHourly ==
    Done =>
        \A i \in DOMAIN forecasts :
            /\ forecasts[i].tempHigh >= forecasts[i].tempLow
            /\ forecasts[i].hourly # <<>>

\* a synthesized today, a single-sample day and a day whose high exceeds its low
C6_Witness ==
    /\ Done /\ TodayMissing
    /\ \E i \in DOMAIN forecasts :
         /\ Dates[i] \in InputDays
         /\ Len(forecasts[i].hourly) = 1
         /\ forecasts[i].tempHigh = forecasts[i].tempLow
    /\ \E i \in DOMAIN forecasts : forecasts[i].tempHigh > forecasts[i].tempLow

(* C7 *)

\* the samples a summary is built from: the day's samples, or items[0] alone
\* for the synthesized today
Bucket(i) ==
    IF Dates[i] \in InputDays THEN SamplesOn(items, Dates[i]) ELSE <<items[1]>>

\* the time of day of the provider text is 12:00:00
HasNoon(item) == SubSeq(item.dt_txt, 12, 19) = Midday

Representative(b) ==
    IF \E i \in DOMAIN b : HasNoon(b[i])
    THEN b[CHOOSE i \in DOMAIN b : HasNoon(b[i]) /\ \A j \in 1..(i - 1) : ~HasNoon(b[j])]
    ELSE b[(Len(b) \div 2) + 1]

\* C7: the condition, description and icon of each summary are those of the
\* first sample of its bucket whose dt_txt contains "12:00:00", and of the
\* sample at index floor(length / 2) when no sample of the bucket contains it.
C7_Representative ==
    Done =>
        \A i \in DOMAIN forecasts :
            LET r == Representative(Bucket(i))
            IN  /\ forecasts[i].condition = r.weather[1].main
                /\ forecasts[i].description = r.weather[1].description
                /\ forecasts[i].icon = r.weather[1].icon

\* a bucket of two samples without a noon text and with different conditions
\* (the second is taken), and a bucket whose noon sample is taken
C7_Witness ==
    /\ Done
    /\ \E i \in DOMAIN forecasts :
         LET b == Bucket(i)
         IN  /\ Len(b) = 2
             /\ ~HasNoon(b[1]) /\ ~HasNoon(b[2])
             /\ b[1].weather[1].main # b[2].weather[1].main
             /\ forecasts[i].condition = b[2].weather[1].main
    /\ \E i \in DOMAIN forecasts :
         /\ \E k \in DOMAIN Bucket(i) : HasNoon(Bucket(i)[k])
         /\ forecasts[i].condition = "Clouds"

(* C8 *)

\* C8 as stated: a non-empty list on a single local day, whichever day, gives
\* exactly one summary, its hourly as long as the input and tempHigh >= tempLow.
C8_Original ==
    (Done /\ items # <<>> /\ Cardinality(InputDays) = 1) =>
        /\ Len(forecasts) = 1
        /\ Len(forecasts[1].hourly) = Len(items)
        /\ forecasts[1].tempHigh >= forecasts[1].tempLow

\* C8 amended: a non-empty list on a single local day that is not after today
\* gives exactly one summary, its hourly as long as the input and
\* tempHigh >= tempLow; when that day is after today it gives two summaries,
\* today's with one hourly record and then the day's, its hourly as long as
\* the input, each with tempHigh >= tempLow.
C8_SingleDay ==
    (Done /\ items # <<>> /\ Cardinality(InputDays) = 1) =>
        /\ Len(forecasts) = (IF TodayMissing THEN 2 ELSE 1)
        /\ TodayMissing => Len(forecasts[1].hourly) = 1
        /\ Len(forecasts[Len(forecasts)].hourly) = Len(items)
        /\ \A i \in DOMAIN forecasts : forecasts[i].tempHigh >= forecasts[i].tempLow

\* three samples at two instants of one local day that is not after today
C8_Witness ==
    /\ Done /\ Len(items) = 3 /\ ~TodayMissing
    /\ Cardinality(InputDays) = 1
    /\ Cardinality({items[i].dt : i \in DOMAIN items}) = 2
    /\ Len(forecasts) = 1
    /\ Len(forecasts[1].hourly) = 3

(* C9 *)

\* C9: an empty sample list gives an empty sequence and no error: no today
\* placeholder is synthesized from an empty input.
C9_EmptyInput ==
    (Done /\ items = <<>>) => (forecasts = <<>> /\ ~threw)

\* the call on the empty list has returned
C9_Witness == Done /\ items = <<>> /\ forecasts = <<>> /\ ~threw

(* C10 *)

\* C10: transformForecastData never returns more than 5 day forecasts.
C10_AtMostFive == Done => Len(forecasts) <= 5

(* C11 *)

\* the summaries named "Today"
Todays == {i \in DOMAIN forecasts : forecasts[i].dayName = "Today"}

\* C11: every returned summary is named "Today" exactly when its date key is
\* the local date key of today (the day the call was made on), and is named by
\* the weekday of its date otherwise; so at most one summary is named "Today".
C11_DayNames ==
    Done =>
        /\ \A i \in DOMAIN forecasts :
             IF forecasts[i].date = dateKey(LocalDate(now, tz))
             THEN forecasts[i].dayName = "Today"
             ELSE forecasts[i].dayName = Weekdays[((Dates[i] + 4) % 7) + 1]
        /\ Cardinality(Todays) <= 1

(* C19 *)


\* s without its leading and trailing white space
RECURSIVE StripLeft(_)
StripLeft(s) ==
    IF s # <<>> /\ IsWhiteSpace(Head(s)) THEN StripLeft(Tail(s)) ELSE s
RECURSIVE StripRight(_)
StripRight(s) ==
    IF s # <<>> /\ IsWhiteSpace(s[Len(s)]) THEN StripRight(SubSeq(s, 1, Len(s) - 1)) ELSE s
Stripped(s) == StripRight(StripLeft(s))

FiveDigits(t) == Len(t) = 5 /\ \A i \in 1..5 : t[i] \in 48..57

\* C19: an input that is exactly 5 ASCII digits once its leading and trailing
\* white space is removed is classified zip, valid, its sanitized text the
\* trimmed input.
C19_Zip ==
    (Validated /\ FiveDigits(Stripped(input))) =>
        validation = [isValid |-> TRUE, type |-> "zip", sanitized |-> Stripped(input)]

\* a zip code with a leading zero, typed with white space around it
C19_Witness ==
    /\ Validated
    /\ FiveDigits(Stripped(input)) /\ Head(Stripped(input)) = Zero
    /\ input # Stripped(input)
    /\ validation.type = "zip"

(* C20 *)

\* the city grammar as stated: a letter, at most 98 letters, spaces, periods,
\* hyphens or apostrophes, and an optional ", XX" or ",XX"
GrammarChar(c) == c \in (65..90) \cup (97..122) \cup {32, 46, 45, 39}
GrammarLetter(c) == c \in (65..90) \cup (97..122)
GrammarSuffix(t) ==
    \/ t = <<>>
    \/ Len(t) = 4 /\ t[1] = 44 /\ t[2] = 32 /\ GrammarLetter(t[3]) /\ GrammarLetter(t[4])
    \/ Len(t) = 3 /\ t[1] = 44 /\ GrammarLetter(t[2]) /\ GrammarLetter(t[3])
CityGrammar(t) ==
    /\ t # <<>>
    /\ GrammarLetter(t[1])
    /\ \E n \in 0..98 :
         /\ n + 1 <= Len(t)
         /\ \A i \in 2..(n + 1) : GrammarChar(t[i])
         /\ GrammarSuffix(SubSeq(t, n + 2, Len(t)))

\* C20: the result is city exactly when the trimmed input is not 5 digits and
\* matches the city grammar; every other input that is not a zip code is
\* invalid.
C20_CityGrammar ==
    Validated =>
        LET t == Stripped(input)
            city == ~FiveDigits(t) /\ CityGrammar(t)
        IN  /\ validation.type = "city" <=> city
            /\ (~city /\ ~FiveDigits(t)) =>
                   (validation.type = "invalid" /\ ~validation.isValid)

\* the inputs on which C20 fails are those with white space other than the
\* space in the name or after the comma
C20_OnlyOtherWhiteSpace ==
    (Validated /\ \A i \in DOMAIN validation.sanitized :
                     IsWhiteSpace(validation.sanitized[i]) => validation.sanitized[i] = 32)
        => C20_CityGrammar

(* C12 *)

\* the step just taken is a call fetchWeather(q)
Searched(q) == lastStep'.event \in {"invalid", "start"} /\ lastStep'.query = q

\* C12: a call of fetchWeather whose query the classifier rejects issues no
\* fetch, whatever the state it is made in, and leaves error set to the
\* validation message.
C12_InvalidNeverFetches ==
    [][\A q \in Queries :
         (Searched(q) /\ ~validateSearchInput(q).isValid) =>
             /\ fetched' = fetched
             /\ state'.error =
                    Some("Please enter a valid US city name or 5-digit zip code.")]_vars

\* an invalid search made while a fetch is in flight
C12_Witness ==
    /\ lastStep.event = "invalid" /\ lastStep.query = TextInvalid
    /\ \E i \in DOMAIN calls : calls[i].outcome = "pending"
    /\ Len(fetched) = 1
    /\ state.error = Some("Please enter a valid US city name or 5-digit zip code.")

(* C13 *)

\* two texts equal ignoring the case of their letters
Lower(c) == IF c \in 65..90 THEN c + 32 ELSE c
SameIgnoringCase(a, b) == Len(a) = Len(b) /\ \A i \in 1..Len(a) : Lower(a[i]) = Lower(b[i])

Distinct(list) ==
    \A i, j \in DOMAIN list : i # j => ~SameIgnoringCase(list[i], list[j])

\* the entries of list other than q (ignoring case), in their order
RECURSIVE Others(_, _)
Others(list, q) ==
    IF list = <<>> THEN <<>>
    ELSE (IF SameIgnoringCase(list[1], q) THEN <<>> ELSE <<list[1]>>) \o Others(Tail(list), q)

\* a successful search has just completed: its query is first and the
\* previous entries follow in their previous order, as far as five entries go
SuccessPutsQueryFirst ==
    lastStep'.event = "success" =>
        /\ state'.recentSearches # <<>>
        /\ state'.recentSearches[1] = Stripped(calls[lastStep'.call].sanitized)
        /\ Tail(state'.recentSearches)
               = FirstN(Others(state.recentSearches, state'.recentSearches[1]), 4)

\* C13 as stated: from any stored list, recentSearches always has at most 5
\* entries, no two of them equal ignoring case, and a successful search puts
\* its sanitized query first, the previous entries following in their order.
C13_Original ==
    /\ [](mounted => (Len(state.recentSearches) <= 5 /\ Distinct(state.recentSearches)))
    /\ [][SuccessPutsQueryFirst]_vars

\* the rest of C13 holds, and a list without two such entries stays so
C13_DistinctPreserved ==
    /\ [](mounted => Len(state.recentSearches) <= 5)
    /\ [][(mounted /\ Distinct(state.recentSearches)) => Distinct(state'.recentSearches)]_vars
    /\ [][SuccessPutsQueryFirst]_vars

(* C14 *)

Succeeded == {i \in DOMAIN calls : calls[i].outcome = "success"}

\* the successful call that resolved last
LastSucceeded == CHOOSE i \in Succeeded : \A j \in Succeeded : calls[j].order <= calls[i].order

\* C14: forecast and cityName are those of the successful response that
\* resolved last, at any moment and so once every search has settled, in
\* whatever order the searches were started: no response is discarded.
C14_LastResolvedWins ==
    Succeeded # {} =>
        /\ state.forecast = Some(calls[LastSucceeded].result.value.forecast)
        /\ state.cityName = calls[LastSucceeded].result.value.cityName

\* two searches in flight at once, the one started first resolving last, with
\* another city than the one started second
C14_Witness ==
    /\ Len(calls) = 2 /\ Succeeded = {1, 2}
    /\ calls[1].order = 2 /\ calls[2].order = 1
    /\ calls[1].result.value.cityName # calls[2].result.value.cityName
    /\ state.cityName = calls[1].result.value.cityName

(* C15 *)

InFlight == {i \in DOMAIN calls : calls[i].outcome = "pending"}

\* C15: loading is true exactly when at least one fetch that fetchWeather
\* started has not settled, overlapping searches included.
C15_LoadingIffInFlight == mounted => (state.loading <=> InFlight # {})

(* C16 *)

\* C16: when fetchForecast fails, fetchWeather completes without rejecting,
\* loading is false and error is the failure's message, or 'An unexpected
\* error occurred.' when the thrown value is not an Error.
C16_FailureSetsError ==
    lastStep.event = "failure" =>
        LET call == calls[lastStep.call]
            thrown == call.result.value.error
        IN  /\ ~call.rejected
            /\ ~state.loading
            /\ state.error = Some(IF thrown.isError THEN thrown.message
                                  ELSE "An unexpected error occurred.")

\* fetch rejected with a string
C16_Witness ==
    /\ lastStep.event = "failure"
    /\ ~calls[lastStep.call].result.value.error.isError
    /\ state.error = Some("An unexpected error occurred.")

(* C17 *)

\* the stored item is the JSON text of a list of strings
HoldsList(item) == \E list \in StoredLists : item = Some(JSONstringify(list))
ListHeld(item) == CHOOSE list \in StoredLists : item = Some(JSONstringify(list))

\* C17: at startup recentSearches is the first 5 stored strings when the
\* stored item can be read and is a JSON array of strings, and is empty when
\* the item is absent, unreadable, not JSON, not an array or an array with an
\* element that is not a string.
C17_LoadAtStartup ==
    [][(~mounted /\ mounted') =>
          state'.recentSearches =
              IF lastStep'.read = "read" /\ HoldsList(stored)
              THEN FirstN(ListHeld(stored), 5)
              ELSE <<>>]_vars

\* six stored entries, one of them with escaped characters, the write of the
\* effect failing: the first five are loaded
C17_Witness ==
    /\ lastStep.event = "mount" /\ lastStep.read = "read" /\ lastStep.write = "failed"
    /\ stored = Some(JSONstringify(SixEntries))
    /\ state.recentSearches = SubSeq(SixEntries, 1, 5)

(* C18 *)

\* the list of strings a stored text decodes to
Decoded(text) ==
    LET parsed == JSONparse(text).value.value IN [i \in DOMAIN parsed |-> parsed[i].value]

\* C18: a successful search rewrites the stored item to the in-memory
\* recentSearches; a search that fails or is invalid leaves the item as it
\* was; when the write fails the item is as it was, the in-memory state is
\* that of a successful search and the call does not reject.
C18_PersistAfterSuccess ==
    [][/\ (lastStep'.event = "success" /\ lastStep'.write = "saved") =>
             (~stored'.null /\ Decoded(stored'.value) = state'.recentSearches)
       /\ lastStep'.event \in {"failure", "invalid"} => stored' = stored
       /\ (lastStep'.event = "success" /\ lastStep'.write # "saved") =>
             /\ lastStep'.write = "failed"
             /\ stored' = stored
             /\ state'.recentSearches[1] = calls[lastStep'.call].sanitized
             /\ state'.error = Null /\ ~state'.loading
             /\ ~calls'[lastStep'.call].rejected]_vars

\* a successful search whose write failed: the stored item is not the list
C18_Witness ==
    /\ lastStep.event = "success" /\ lastStep.write = "failed"
    /\ state.recentSearches[1] = calls[lastStep.call].sanitized
    /\ stored # Some(JSONstringify(state.recentSearches))

(* C21 *)

\* fetchWeather has formatted the query of a valid input
Formatted == Validated /\ ~IsUndefined(apiQuery)

\* the length of the state suffix t ends with: 4 for ", XX", 3 for ",XX", 0
\* for neither
SuffixLength(t) ==
    LET n == Len(t)
    IN  IF n >= 4 /\ t[n - 3] = 44 /\ t[n - 2] = 32
              /\ GrammarLetter(t[n - 1]) /\ GrammarLetter(t[n])
        THEN 4
        ELSE IF n >= 3 /\ t[n - 2] = 44 /\ GrammarLetter(t[n - 1]) /\ GrammarLetter(t[n])
        THEN 3
        ELSE 0

\* C21: for an input classified as city that ends with ", XX" or ",XX" the
\* query is the stripped name, a comma, XX as given and ",US"; for a city
\* without such a suffix it is the sanitized input and ",US".
C21_CityQuery ==
    (Formatted /\ validation.type = "city") =>
        LET t == validation.sanitized
            n == Len(t)
            k == SuffixLength(t)
        IN  apiQuery.value =
                IF k > 0
                THEN Stripped(SubSeq(t, 1, n - k)) \o <<44>> \o SubSeq(t, n - 1, n)
                         \o <<44, 85, 83>>
                ELSE t \o <<44, 85, 83>>

\* the city inputs on which C21 fails are those with white space other than
\* the space
C21_OnlyOtherWhiteSpace ==
    (Formatted /\ \A i \in DOMAIN validation.sanitized :
                     IsWhiteSpace(validation.sanitized[i]) => validation.sanitized[i] = 32)
        => C21_CityQuery

(* C22 *)

\* s ends with t
EndsWith(s, t) == Len(s) >= Len(t) /\ SubSeq(s, Len(s) - Len(t) + 1, Len(s)) = t

\* C22: for every string s, formatApiQuery(s, 'zip') ends with ",US", and
\* what precedes this ",US" is s: the suffix is appended exactly once.
C22_ZipQuery ==
    (~IsUndefined(apiQuery) /\ apiQuery.type = "zip") =>
        /\ EndsWith(apiQuery.value, <<44, 85, 83>>)
        /\ SubSeq(apiQuery.value, 1, Len(apiQuery.value) - 3) = apiQuery.sanitized

\* a text that is no zip code and ends with ",US" already, formatted as zip
C22_Witness ==
    /\ ~IsUndefined(apiQuery) /\ apiQuery.type = "zip"
    /\ ~FiveDigits(apiQuery.sanitized)
    /\ EndsWith(apiQuery.sanitized, <<44, 85, 83>>)
    /\ EndsWith(apiQuery.value, <<44, 85, 83, 44, 85, 83>>)

(* C29 *)

\* the handler has sent the query of a valid input upstream
Routed == Formatted /\ ~IsUndefined(proxied) /\ proxied.param # "none"

\* C29: the query built for an accepted input reaches the handler as built,
\* and is sent upstream as `zip` for a zip input and as `q` for a city input.
C29_Routing ==
    Routed =>
        /\ proxied.query = apiQuery.value
        /\ proxied.param = IF validation.type = "zip" THEN "zip" ELSE "q"

\* a zip code typed with white space around it, sent as `zip`
C29_Witness ==
    /\ Routed
    /\ validation.type = "zip" /\ input # validation.sanitized
    /\ proxied.param = "zip" /\ proxied.status = 200

\* a city with a state, sent as `q`
C29_WitnessCity ==
    /\ Routed
    /\ validation.type = "city" /\ SuffixLength(validation.sanitized) = 4
    /\ proxied.param = "q"

(* C30 *)

\* C30: the query built for an accepted input has at most 100 characters, and
\* the handler does not answer it with "Query parameter too long".
C30_QueryLength ==
    Formatted =>
        /\ Len(apiQuery.value) <= 100
        /\ ~IsUndefined(proxied) => proxied.error # "Query parameter too long"

\* a name of at most 97 characters without a state gives a query that is
\* short enough; the queries that are too long are those of longer names, and
\* of names of 95 characters or more followed by a state
C30_OnlyLongNames ==
    (Formatted /\ Len(validation.sanitized) <= 97 /\ SuffixLength(validation.sanitized) = 0)
        => C30_QueryLength

(* C23 *)

\* the hourly records of the summaries
Hourlies ==
    UNION {{forecasts[i].hourly[j] : j \in DOMAIN forecasts[i].hourly} :
             i \in DOMAIN forecasts}

\* whole is the number of whole units nearest to tenths
Nearest(whole, tenths) == 10 * whole - tenths \in -5..5

\* C23: every hourly record has a pop from 0 to 100, and its temp, feelsLike
\* and windSpeed are whole numbers: those nearest to the values of a sample.
C23_HourlyRanges ==
    (Done /\ ~threw) =>
        \A h \in Hourlies :
            /\ h.pop \in 0..100
            /\ \E k \in DOMAIN items :
                 /\ Nearest(h.temp, items[k].main.temp)
                 /\ Nearest(h.feelsLike, items[k].main.feels_like)
                 /\ Nearest(h.windSpeed, items[k].wind.speed)

\* certain rain at -2.5 degrees and a sample with no rain
C23_Witness ==
    /\ Done /\ ~threw
    /\ \E h \in Hourlies : h.pop = 100 /\ h.temp = -2 /\ h.windSpeed = 13
    /\ \E h \in Hourlies : h.pop = 0 /\ h.temp = 72

(* C24 *)

\* the step is a submit event
Submitted == bar'.submits = bar.submits + 1

\* C24: a submit calls onSearch only when the input is valid and loading is
\* false, with the stripped input, and clears the input; any other submit
\* calls nothing and changes nothing.
C24_Submit ==
    [][Submitted =>
         IF validateSearchInput(bar.input).isValid /\ ~bar.loading
         THEN /\ bar'.searches = Append(bar.searches, Stripped(bar.input))
              /\ bar'.input = <<>>
              /\ bar'.touched = FALSE
              /\ bar'.loading = bar.loading
         ELSE bar' = [bar EXCEPT !.submits = bar.submits + 1]]_vars

\* '  Austin, TX  ' was submitted and passed on stripped, and a submit while
\* loading called nothing
C24_Witness ==
    /\ ~IsUndefined(bar)
    /\ bar.submits = 2
    /\ bar.searches = <<TextAustinTX>>
    /\ bar.loading /\ bar.input = Text90210

(* C25 *)

\* the calls whose fetch succeeded
Successes == {i \in DOMAIN calls : calls[i].outcome = "success"}

\* C25: when a forecast is shown, the forecast and the city name are those of
\* one successful response, and the condition is that of the first day of
\* this forecast, or Default when the forecast is empty.
C25_OneResponse ==
    (mounted /\ ~state.forecast.null) =>
        /\ \E i \in Successes :
             /\ state.forecast.value = calls[i].result.value.forecast
             /\ state.cityName = calls[i].result.value.cityName
        /\ state.currentCondition =
               IF state.forecast.value = <<>> THEN "Default"
               ELSE mapOWMCondition(state.forecast.value[1].condition)

\* two overlapping searches succeeded, for Austin and then for Boston, and
\* Boston's rain is shown
C25_Witness ==
    /\ Cardinality(Successes) = 2
    /\ \E i, j \in Successes :
         /\ i < j /\ calls[i].order > calls[j].order
         /\ calls[i].result.value.cityName # calls[j].result.value.cityName
         /\ state.cityName = calls[i].result.value.cityName
    /\ state.currentCondition = "Rain"

\* an empty forecast is shown with the Default condition after a forecast
\* with another condition
C25_WitnessEmpty ==
    /\ Cardinality(Successes) = 2
    /\ ~state.forecast.null /\ state.forecast.value = <<>>
    /\ \E i \in Successes : calls[i].result.value.forecast # <<>>
    /\ state.currentCondition = "Default"

(* C26 *)

\* what a failing or invalid search leaves alone
Kept(st) ==
    <<st.forecast, st.cityName, st.recentSearches, st.currentCondition, st.selectedDay>>

\* C26: the steps of a search that is invalid or whose fetch fails change
\* none of forecast, cityName, recentSearches, currentCondition and
\* selectedDay; an invalid search changes the error only.
C26_FailureFrame ==
    [][/\ lastStep'.event \in {"invalid", "start", "failure"} => Kept(state') = Kept(state)
       /\ lastStep'.event = "invalid" =>
              state' = [state EXCEPT !.error = Some(InvalidMessage)]]_vars

\* a fetch failed while a forecast and a selected day were shown
C26_Witness ==
    /\ mounted
    /\ lastStep.event = "failure"
    /\ ~state.forecast.null /\ ~state.selectedDay.null /\ state.recentSearches # <<>>
    /\ ~state.error.null /\ ~state.loading

\* an invalid search while a fetch was loading
C26_WitnessInvalid ==
    /\ mounted
    /\ lastStep.event = "invalid"
    /\ state.loading /\ ~state.forecast.null

(* C27 *)

\* C27: a selected day is one of the entries of the current forecast.
C27_SelectedDayCurrent ==
    (mounted /\ ~state.selectedDay.null) =>
        /\ ~state.forecast.null
        /\ \E k \in DOMAIN state.forecast.value :
             state.forecast.value[k] = state.selectedDay.value

\* the steps other than a successful fetch keep the selected day among the
\* entries of the forecast
C27_OnlySuccessBreaks ==
    [][(C27_SelectedDayCurrent /\ lastStep'.event # "success") => C27_SelectedDayCurrent']_vars

(* C28 *)

\* C28: provided every fetch settles, loading does not stay true: it is false
\* whenever no fetch is in flight, and a loading state leads to one that is
\* not loading.
C28_LoadingEnds ==
    /\ [](mounted /\ InFlight = {} => ~state.loading)
    /\ (mounted /\ state.loading) ~> (mounted /\ ~state.loading)

\* two overlapping searches have settled, one of them on a response the
\* aggregator threw on, and loading is false
C28_Witness ==
    /\ mounted
    /\ Len(calls) = 2 /\ InFlight = {}
    /\ \E i, j \in DOMAIN calls :
         /\ i < j /\ calls[i].order > calls[j].order
         /\ calls[i].outcome = "failure"
         /\ calls[i].result.value.error
                = ErrorOf("Cannot read properties of undefined (reading 'main')")
    /\ ~state.loading

====
